---- MODULE Spec2Model ----
(***************************************************************************)
(* Annotation store of the document-annotation service: the annotations    *)
(* table with its constraints, the pydantic request schemas, and the       *)
(* create / read / update / delete handlers of the annotation and document *)
(* routers.  Every handler runs to completion on the event loop (the       *)
(* routers are `async def` with no await around the database calls), so    *)
(* one handler is one atomic step.                                         *)
(*                                                                         *)
(* Encodings                                                               *)
(*   - a nullable value is None (<<>>) or Some(v) (<<v>>);                 *)
(*   - a JSON payload is a function from the keys it carries to values;    *)
(*     an absent key is not in its DOMAIN (pydantic "unset");              *)
(*   - x_percent / y_percent are integers in thousandths of a percent;     *)
(*   - a content string is [lead, core, trail]: the number of leading      *)
(*     whitespace characters, the length of the part from the first to the *)
(*     last non-whitespace character (0 when there is none, the whitespace *)
(*     is then counted in lead), and the number of trailing whitespace     *)
(*     characters;                                                         *)
(*   - a color string is the sequence of its characters;                   *)
(*   - a timestamp is a whole number of seconds (SQLite CURRENT_TIMESTAMP); *)
(*   - an annotation's id is its creation rank, which is also the order of *)
(*     its rowid in the table.                                             *)
(***************************************************************************)
EXTENDS Integers, Sequences, FiniteSets, TLC

VARIABLES documents, annotations, next_doc, next_ann, last, focus, now, order_index,
          storage_error, sessions,
          document_rows, upload_dir, conversion_dir, temp_dirs, uploads,
          database, original_rows, migration

(* The variables of the subsystems other than the annotation service. *)
upload_vars == <<document_rows, upload_dir, conversion_dir, temp_dirs, uploads>>

migration_vars == <<database, original_rows, migration>>

other_vars == <<sessions, upload_vars, migration_vars>>

vars == <<documents, annotations, next_doc, next_ann, last, focus, now, order_index,
          storage_error, other_vars>>

-----------------------------------------------------------------------------
(* Bounds of the model *)

MaxDocs == 2
MaxAnn == 2
MaxClock == 2
MaxUploads == 2
MaxOldRows == 2

DocIds == 1..MaxDocs
Requests == 1..MaxUploads
AnnIds == 1..MaxAnn

-----------------------------------------------------------------------------
(* Program constants *)

MinPage == 1
PercentMin == 0
PercentMax == 100000
MinPixel == 0
MinContentLength == 1
MaxContentLength == 5000
HexDigitCount == 6

ForeignKeysEnforced == FALSE

None == <<>>
Some(v) == <<v>>

AnnotationTypes == {"document", "image"}

DocumentFields == {"page", "x_percent", "y_percent"}
ImageFields == {"x_pixel", "y_pixel"}
UpdateFields == {"page", "x_percent", "y_percent", "x_pixel", "y_pixel", "color", "content"}

PercentScale == 2

Indexes == {"idx_annotations_document_page", "idx_annotations_document_type"}

-----------------------------------------------------------------------------
(* Strings *)

Str(lead, core, trail) == [lead |-> lead, core |-> core, trail |-> trail]

StrLen(s) == s.lead + s.core + s.trail

Strip(s) == Str(0, s.core, 0)

HexChars == {"0", "9", "A", "F", "a", "f"}

LF == "LF"

ReMatchHexColor(s) ==
    /\ Len(s) >= HexDigitCount + 1
    /\ s[1] = "#"
    /\ \A k \in 2..(HexDigitCount + 1) : s[k] \in HexChars
    /\ \/ Len(s) = HexDigitCount + 1
       \/ Len(s) = HexDigitCount + 2 /\ s[HexDigitCount + 2] = LF

-----------------------------------------------------------------------------
(* Sample values of the request fields *)

Note == Str(0, 4, 0)
Edited == Str(0, 7, 0)
Tint == <<"#", "F", "f", "0", "0", "a", "9">>

BaseValue(f) ==
    CASE f = "document_id" -> Some(1)
      [] f = "content" -> Some(Note)
      [] f = "page" -> Some(1)
      [] f = "x_percent" -> Some(50500)
      [] f = "y_percent" -> Some(75250)
      [] f = "x_pixel" -> Some(100)
      [] f = "y_pixel" -> Some(200)
      [] f = "color" -> Some(Tint)

ContentSamples ==
    { Str(2, 4, 2), Str(0, 0, 0), Str(3, 0, 0), Str(0, MaxContentLength, 0),
      Str(0, MaxContentLength + 1, 0), Str(1, MaxContentLength - 1, 1) }

ColorSamples ==
    { <<"r", "e", "d">>,
      <<"#", "F", "F", "F">>,
      <<"#", "G", "G", "G", "G", "G", "G">>,
      <<"F", "F", "0", "0", "0", "0", "#">>,
      <<"#", "F", "F", "0", "0", "0", "0", "0">>,
      <<"#", "F", "F", "0", "0", "0", "0", LF>> }

Samples(f) ==
    CASE f = "document_id" -> {Some(d) : d \in DocIds} \cup {None}
      [] f = "content" -> {Some(s) : s \in ContentSamples} \cup {None}
      [] f = "page" -> {Some(MinPage - 1), Some(MinPage + 1), None}
      [] f = "x_percent" -> {Some(PercentMin - 10), Some(PercentMin), Some(PercentMax),
                             Some(PercentMax + 10), Some(33333), None}
      [] f = "y_percent" -> {Some(PercentMin - 10), Some(PercentMin), Some(PercentMax),
                             Some(PercentMax + 10), None}
      [] f = "x_pixel" -> {Some(MinPixel - 1), Some(MinPixel), None}
      [] f = "y_pixel" -> {Some(MinPixel - 1), Some(MinPixel), None}
      [] f = "color" -> {Some(c) : c \in ColorSamples} \cup {None}

PayloadFields == {"document_id", "content", "page", "x_percent", "y_percent",
                  "x_pixel", "y_pixel", "color"}

Focus == PayloadFields \cup {"shape", "identity"}

Dom(f) ==
    IF focus = f THEN Samples(f) \cup {BaseValue(f)}
    ELSE IF focus = "shape" THEN {BaseValue(f), None}
    ELSE IF focus = "time" /\ f = "content" THEN {BaseValue(f), Some(Edited)}
    ELSE IF focus = "query" /\ f = "page" THEN {BaseValue(f), Some(MinPage + 1)}
    ELSE IF focus = "query" /\ f = "document_id" THEN {Some(1), Some(MaxDocs)}
    ELSE {BaseValue(f)}

DocumentIdInputs == {o[1] : o \in Dom("document_id") \ {None}}

TypeSamples == {"document", "image", "video"}

With(p, f, v) == [k \in DOMAIN p \cup {f} |-> IF k = f THEN v ELSE p[k]]

Without(p, f) == [k \in DOMAIN p \ {f} |-> p[k]]

EmptyPayload == [k \in {} |-> None]

DocBase ==
    [annotation_type |-> "document", document_id |-> BaseValue("document_id"),
     content |-> BaseValue("content"), page |-> BaseValue("page"),
     x_percent |-> BaseValue("x_percent"), y_percent |-> BaseValue("y_percent")]

ImgBase ==
    [annotation_type |-> "image", document_id |-> BaseValue("document_id"),
     content |-> BaseValue("content"), x_pixel |-> BaseValue("x_pixel"),
     y_pixel |-> BaseValue("y_pixel"), color |-> BaseValue("color")]

BothBase ==
    [document_id |-> BaseValue("document_id"), content |-> BaseValue("content"),
     page |-> BaseValue("page"), x_percent |-> BaseValue("x_percent"),
     y_percent |-> BaseValue("y_percent"), x_pixel |-> BaseValue("x_pixel"),
     y_pixel |-> BaseValue("y_pixel"), color |-> BaseValue("color")]

CreateBases == IF focus = "shape" THEN {DocBase, ImgBase, BothBase} ELSE {DocBase, ImgBase}

ShapeVariants(b) ==
    {Without(b, f) : f \in DOMAIN b}
    \cup {With(b, "annotation_type", t) : t \in TypeSamples}
    \cup UNION {{With(b, f, v) : v \in Dom(f)} : f \in PayloadFields}

FocusFields ==
    CASE focus = "shape" -> PayloadFields
      [] focus = "time" -> {"content"}
      [] focus = "identity" -> {}
      [] focus = "fault" -> {}
      [] focus = "race" -> {}
      [] focus = "query" -> {"page", "document_id"}
      [] OTHER -> {focus}

CreatePayloads ==
    CreateBases
    \cup (IF focus = "shape"
          THEN UNION {ShapeVariants(b) : b \in CreateBases}
          ELSE UNION {UNION {{With(b, f, v) : v \in Dom(f)}
                             : b \in {c \in CreateBases : f \in DOMAIN c}}
                      : f \in IF focus = "time" THEN {} ELSE FocusFields})

OneField == UNION {{With(EmptyPayload, f, v) : v \in Dom(f)} : f \in UpdateFields \cap FocusFields}

ServerFields ==
    [id |-> Some(MaxAnn), document_id |-> Some(MaxDocs), annotation_type |-> "image",
     created_at |-> MaxClock]

ServerFieldPayloads ==
    IF focus \in {"time", "identity"}
    THEN {ServerFields, With(ServerFields, "content", Some(Edited))}
    ELSE {}

UpdatePayloads ==
    {EmptyPayload}
    \cup OneField
    \cup ServerFieldPayloads
    \cup (IF focus = "shape"
          THEN UNION {{With(q, "content", v) : v \in Dom("content")} : q \in OneField}
          ELSE {})

TypeFilters ==
    IF focus = "query"
    THEN {None, Some("document"), Some("image"), Some("video"), Some("")}
    ELSE {None}

PageFilters ==
    IF focus = "query" THEN {None, Some(MinPage + 1)} ELSE {None}

-----------------------------------------------------------------------------
(* Request schemas (pydantic) *)

Has(p, f) == f \in DOMAIN p

IntAtLeast(o, min) == o # None /\ o[1] >= min

PercentInRange_NoUpperBound(o) == o # None /\ o[1] >= PercentMin

PercentInRange(o) == o # None /\ o[1] >= PercentMin /\ o[1] <= PercentMax

ContentLengthOk_AfterStrip(s) ==
    StrLen(Strip(s)) >= MinContentLength /\ StrLen(Strip(s)) <= MaxContentLength

ContentLengthOk(s) == StrLen(s) >= MinContentLength /\ StrLen(s) <= MaxContentLength

validate_content(o) == o # None /\ ContentLengthOk(o[1]) /\ Strip(o[1]).core # 0

validate_color(o) == o = None \/ ReMatchHexColor(o[1])

AnnotationBaseValid(p) ==
    /\ Has(p, "content") /\ validate_content(p["content"])
    /\ Has(p, "document_id") /\ p["document_id"] # None

DocumentAnnotationCreateValid_AnyType(p) ==
    /\ AnnotationBaseValid(p)
    /\ Has(p, "page") /\ IntAtLeast(p["page"], MinPage)
    /\ Has(p, "x_percent") /\ PercentInRange(p["x_percent"])
    /\ Has(p, "y_percent") /\ PercentInRange(p["y_percent"])

DocumentAnnotationCreateValid(p) ==
    /\ Has(p, "annotation_type") => p["annotation_type"] = "document"
    /\ AnnotationBaseValid(p)
    /\ Has(p, "page") /\ IntAtLeast(p["page"], MinPage)
    /\ Has(p, "x_percent") /\ PercentInRange(p["x_percent"])
    /\ Has(p, "y_percent") /\ PercentInRange(p["y_percent"])

ImageAnnotationCreateValid(p) ==
    /\ Has(p, "annotation_type") => p["annotation_type"] = "image"
    /\ AnnotationBaseValid(p)
    /\ Has(p, "x_pixel") /\ IntAtLeast(p["x_pixel"], MinPixel)
    /\ Has(p, "y_pixel") /\ IntAtLeast(p["y_pixel"], MinPixel)
    /\ Has(p, "color") => validate_color(p["color"])

AnnotationCreateVariants(p) ==
    {t \in AnnotationTypes :
        \/ t = "document" /\ DocumentAnnotationCreateValid(p)
        \/ t = "image" /\ ImageAnnotationCreateValid(p)}

DocumentModelDump_KeepExtras(p) ==
    [document_id |-> p["document_id"], annotation_type |-> "document",
     page |-> p["page"], x_percent |-> p["x_percent"], y_percent |-> p["y_percent"],
     x_pixel |-> IF Has(p, "x_pixel") THEN p["x_pixel"] ELSE None,
     y_pixel |-> IF Has(p, "y_pixel") THEN p["y_pixel"] ELSE None,
     content |-> Some(Strip(p["content"][1])),
     color |-> IF Has(p, "color") THEN p["color"] ELSE None]

DocumentModelDump(p) ==
    [document_id |-> p["document_id"], annotation_type |-> "document",
     page |-> p["page"], x_percent |-> p["x_percent"], y_percent |-> p["y_percent"],
     x_pixel |-> None, y_pixel |-> None,
     content |-> Some(Strip(p["content"][1])), color |-> None]

ImageModelDump(p) ==
    [document_id |-> p["document_id"], annotation_type |-> "image",
     page |-> None, x_percent |-> None, y_percent |-> None,
     x_pixel |-> p["x_pixel"], y_pixel |-> p["y_pixel"],
     content |-> Some(Strip(p["content"][1])),
     color |-> IF Has(p, "color") THEN p["color"] ELSE None]

CreateModelDump(t, p) == IF t = "document" THEN DocumentModelDump(p) ELSE ImageModelDump(p)

UpdateFieldValid(f, o) ==
    \/ o = None
    \/ CASE f = "page" -> IntAtLeast(o, MinPage)
         [] f \in {"x_percent", "y_percent"} -> PercentInRange(o)
         [] f \in {"x_pixel", "y_pixel"} -> IntAtLeast(o, MinPixel)
         [] f = "content" -> validate_content(o)
         [] f = "color" -> validate_color(o)

AnnotationUpdateValid(p) == \A f \in DOMAIN p \cap UpdateFields : UpdateFieldValid(f, p[f])

UpdateModelDump_KeepExtras(p) ==
    [f \in DOMAIN p \cap (UpdateFields \cup {"document_id", "annotation_type", "created_at"}) |->
        IF f = "content" /\ p[f] # None THEN Some(Strip(p[f][1])) ELSE p[f]]

UpdateModelDump(p) ==
    [f \in DOMAIN p \cap UpdateFields |->
        IF f = "content" /\ p[f] # None THEN Some(Strip(p[f][1])) ELSE p[f]]

-----------------------------------------------------------------------------
(* The annotations table *)

UserColumns == {"document_id", "annotation_type", "page", "x_percent", "y_percent",
                "x_pixel", "y_pixel", "content", "color"}

Columns == UserColumns \cup {"created_at", "updated_at"}

NotNullColumns(row) == row["document_id"] # None /\ row["content"] # None

check_annotation_type_fields_TypeOnly(row) == row["annotation_type"] \in AnnotationTypes

check_annotation_type_fields(row) ==
    \/ /\ row["annotation_type"] = "document"
       /\ row["page"] # None /\ row["x_percent"] # None /\ row["y_percent"] # None
    \/ /\ row["annotation_type"] = "image"
       /\ row["x_pixel"] # None /\ row["y_pixel"] # None

ForeignKeyOk(row) ==
    ForeignKeysEnforced => (row["document_id"] # None /\ row["document_id"][1] \in documents)

CommitOk(row) == NotNullColumns(row) /\ check_annotation_type_fields(row) /\ ForeignKeyOk(row)

(* INSERT at database time t: created_at and updated_at take the server     *)
(* default, evaluated once for the statement.                               *)
InsertRow(row, t) ==
    [c \in Columns |-> IF c \in {"created_at", "updated_at"} THEN t ELSE row[c]]

PercentUnit == 10 ^ (3 - PercentScale)

(* Numeric(5, 2) result processing: the stored float is formatted with      *)
(* '%.2f' and read as a Decimal.  v is in thousandths; a value exactly      *)
(* halfway between two hundredths rounds to the even one.                   *)
to_decimal(v) ==
    LET r == v % PercentUnit
        down == v - r
    IN IF 2 * r < PercentUnit THEN down
       ELSE IF 2 * r > PercentUnit THEN down + PercentUnit
       ELSE IF (down \div PercentUnit) % 2 = 0 THEN down ELSE down + PercentUnit

(* A row as the ORM loads it. *)
Load(row) ==
    [c \in Columns |->
        IF c \in {"x_percent", "y_percent"} /\ row[c] # None
        THEN Some(to_decimal(row[c][1])) ELSE row[c]]

(* AnnotationResponse.model_validate(annotation) *)
model_validate(i, row) ==
    LET loaded == Load(row) IN
    [c \in Columns \cup {"id"} |-> IF c = "id" THEN i ELSE loaded[c]]

Response(op, id, status) == [op |-> op, id |-> id, status |-> status, body |-> None]

Reply(op, id, status, body) == [op |-> op, id |-> id, status |-> status, body |-> body]

-----------------------------------------------------------------------------
(* Handlers *)

(* Two requests in flight at once, each with its own database session. *)
Procs == {"A", "B"}

Idle ==
    [pc |-> "idle", op |-> "none", id |-> 0, update_data |-> EmptyPayload, loaded |-> None,
     status |-> 0, seq |-> 0, deleted |-> {}]

(* An upload request that has not been received yet. *)
NoUpload == [pc |-> "idle", input |-> None, status |-> 0, code |-> "", body |-> None,
             conversion |-> None]

(* The database file as the migration script sees it: the schema of the    *)
(* annotations table, its rows, whether a table annotations_new exists, and *)
(* the indexes.  create_all gives the current schema.                       *)
CurrentDatabase ==
    [schema |-> "new", rows |-> [i \in {} |-> None], annotations_new |-> FALSE,
     indexes |-> Indexes]

InitRequests ==
    /\ sessions = [s \in Procs |-> Idle]
    /\ document_rows = [d \in {} |-> None]
    /\ upload_dir = {}
    /\ conversion_dir = [r \in {} |-> None]
    /\ temp_dirs = {}
    /\ uploads = [r \in Requests |-> NoUpload]

InitOther ==
    /\ database = CurrentDatabase
    /\ original_rows = [i \in {} |-> None]
    /\ migration = "none"
    /\ InitRequests

Init ==
    /\ documents = {}
    /\ annotations = [i \in {} |-> None]
    /\ next_doc = 1
    /\ next_ann = 1
    /\ last = Response("none", None, 0)
    /\ focus \in Focus
    /\ now = 0
    /\ order_index = "idx_annotations_document_type"
    /\ storage_error = FALSE
    /\ InitOther

(* The same start with the clock varied, and with the list queries varied,  *)
(* where either index may be the one the query planner scans.               *)
InitTime ==
    /\ documents = {}
    /\ annotations = [i \in {} |-> None]
    /\ next_doc = 1
    /\ next_ann = 1
    /\ last = Response("none", None, 0)
    /\ focus = "time"
    /\ now = 0
    /\ order_index = "idx_annotations_document_type"
    /\ storage_error = FALSE
    /\ InitOther

InitFault ==
    /\ documents = {}
    /\ annotations = [i \in {} |-> None]
    /\ next_doc = 1
    /\ next_ann = 1
    /\ last = Response("none", None, 0)
    /\ focus = "fault"
    /\ now = 0
    /\ order_index = "idx_annotations_document_type"
    /\ storage_error = FALSE
    /\ InitOther

InitQuery ==
    /\ documents = {}
    /\ annotations = [i \in {} |-> None]
    /\ next_doc = 1
    /\ next_ann = 1
    /\ last = Response("none", None, 0)
    /\ focus = "query"
    /\ now = 0
    /\ order_index \in Indexes
    /\ storage_error = FALSE
    /\ InitOther

(* The database time at which a write is executed: the time of the previous *)
(* write or a second later.                                                 *)
ClockInputs ==
    IF focus = "time" THEN {t \in {now, now + 1} : t <= MaxClock} ELSE {now}

(* Documents are created up to the ids that the requests refer to. *)
DocumentBound == IF focus = "document_id" THEN MaxDocs ELSE 1

create_document ==
    /\ next_doc <= DocumentBound
    /\ documents' = documents \cup {next_doc}
    /\ next_doc' = next_doc + 1
    /\ last' = Response("create_document", Some(next_doc), 201)
    /\ UNCHANGED <<annotations, next_ann, focus, now, order_index>>
    /\ storage_error' = FALSE
    /\ UNCHANGED other_vars

CascadeDelete_NoCascade(d) == annotations

CascadeDelete(d) ==
    [i \in {j \in DOMAIN annotations : annotations[j]["document_id"] # Some(d)}
        |-> annotations[i]]

delete_document(d, os_error) ==
    /\ IF d \notin documents
       THEN /\ last' = Response("delete_document", None, 404)
            /\ UNCHANGED <<documents, annotations>>
       ELSE IF os_error
       THEN /\ last' = Response("delete_document", None, 500)
            /\ UNCHANGED <<documents, annotations>>
       ELSE /\ documents' = documents \ {d}
            /\ annotations' = CascadeDelete(d)
            /\ last' = Response("delete_document", Some(d), 200)
    /\ UNCHANGED <<next_doc, next_ann, focus, now, order_index>>
    /\ storage_error' = FALSE
    /\ UNCHANGED other_vars

Outcome(status, id, store, next) ==
    [status |-> status, id |-> id, annotations |-> store, next_ann |-> next]

(* db.refresh(annotation), then AnnotationResponse.model_validate of it. *)
ResponseBody(o) ==
    IF o.id = None THEN None ELSE Some(model_validate(o.id[1], o.annotations[o.id[1]]))

CreateOutcomesAt(p, t) ==
    IF AnnotationCreateVariants(p) = {}
    THEN {Outcome(422, None, annotations, next_ann)}
    ELSE {LET row == CreateModelDump(v, p) IN
          IF CommitOk(row)
          THEN Outcome(201, Some(next_ann), With(annotations, next_ann, InsertRow(row, t)),
                       next_ann + 1)
          ELSE Outcome(400, None, annotations, next_ann)
          : v \in AnnotationCreateVariants(p)}

CreateOutcomes(p) == CreateOutcomesAt(p, now)

(* db.commit() raising a storage-layer error (the database locked or full, *)
(* an I/O error): the exception leaves the service, the transaction is      *)
(* rolled back when get_db closes the session, and the request is answered  *)
(* with `status`.                                                           *)
StorageFaults == IF focus = "fault" THEN BOOLEAN ELSE {FALSE}

CommitRaised(status) == Outcome(status, None, annotations, next_ann)

create_annotation(p) ==
    /\ next_ann <= MaxAnn
    /\ \E t \in ClockInputs, fault \in StorageFaults : \E c \in CreateOutcomesAt(p, t) :
         LET o == IF fault THEN CommitRaised(400) ELSE c IN
         /\ fault => c.status = 201
         /\ now' = t
         /\ annotations' = o.annotations
         /\ next_ann' = o.next_ann
         /\ last' = Reply("create_annotation", o.id, o.status, ResponseBody(o))
         /\ storage_error' = fault
    /\ UNCHANGED <<documents, next_doc, focus, order_index>>
    /\ UNCHANGED other_vars

OtherVariantField_FirstOnly(row, update_data) ==
    \/ row["annotation_type"] = "document" /\ "x_pixel" \in DOMAIN update_data
    \/ row["annotation_type"] = "image" /\ "page" \in DOMAIN update_data

OtherVariantField(row, update_data) ==
    \/ /\ row["annotation_type"] = "document"
       /\ ("x_pixel" \in DOMAIN update_data \/ "y_pixel" \in DOMAIN update_data)
    \/ /\ row["annotation_type"] = "image"
       /\ \/ "page" \in DOMAIN update_data
          \/ "x_percent" \in DOMAIN update_data
          \/ "y_percent" \in DOMAIN update_data

get_annotation_by_id(i) == IF i \in DOMAIN annotations THEN Some(annotations[i]) ELSE None

(* The ORM's comparison of a value being set with the loaded one: a float   *)
(* equals the loaded Decimal only when it is exactly representable (a       *)
(* multiple of 0.25).                                                       *)
is_equal(f, new, old) ==
    IF f \in {"x_percent", "y_percent"} /\ new # None /\ old # None
    THEN new = old /\ (new[1] * 4) % 1000 = 0
    ELSE new = old

(* The flush emits an UPDATE only when some attribute has a net change. *)
NetChange(row, update_data) ==
    LET loaded == Load(row) IN
    \E f \in DOMAIN update_data : ~is_equal(f, update_data[f], loaded[f])

(* setattr loop, then commit: onupdate=func.now() sets updated_at in the    *)
(* UPDATE statement when one is emitted.                                    *)
ApplyUpdate_UnsetAsNull(row, update_data, t) ==
    [c \in Columns |->
        IF c \in DOMAIN update_data THEN update_data[c]
        ELSE IF c = "updated_at" /\ NetChange(row, update_data) THEN t
        ELSE IF c = "color" THEN None
        ELSE row[c]]

ApplyUpdate(row, update_data, t) ==
    LET changed == NetChange(row, update_data) IN
    [c \in Columns |->
        IF c \in DOMAIN update_data THEN update_data[c]
        ELSE IF c = "updated_at" /\ changed THEN t
        ELSE row[c]]

(* A variant in which a commit that fails leaves the attributes already set *)
(* in the table.                                                            *)
UpdateOutcomeAt_PartialWrite(i, p, t) ==
    IF ~AnnotationUpdateValid(p)
    THEN Outcome(422, None, annotations, next_ann)
    ELSE IF get_annotation_by_id(i) = None
    THEN Outcome(404, None, annotations, next_ann)
    ELSE LET update_data == UpdateModelDump(p)
             row == ApplyUpdate(annotations[i], update_data, t) IN
         IF OtherVariantField(annotations[i], update_data)
         THEN Outcome(400, None, annotations, next_ann)
         ELSE IF CommitOk(row)
         THEN Outcome(200, Some(i), [annotations EXCEPT ![i] = row], next_ann)
         ELSE Outcome(500, None, [annotations EXCEPT ![i] = row], next_ann)

UpdateOutcomeAt(i, p, t) ==
    IF ~AnnotationUpdateValid(p)
    THEN Outcome(422, None, annotations, next_ann)
    ELSE IF get_annotation_by_id(i) = None
    THEN Outcome(404, None, annotations, next_ann)
    ELSE LET update_data == UpdateModelDump(p)
             row == ApplyUpdate(annotations[i], update_data, t) IN
         IF OtherVariantField(annotations[i], update_data)
         THEN Outcome(400, None, annotations, next_ann)
         ELSE IF CommitOk(row)
         THEN Outcome(200, Some(i), [annotations EXCEPT ![i] = row], next_ann)
         ELSE Outcome(500, None, annotations, next_ann)

UpdateOutcome(i, p) == UpdateOutcomeAt(i, p, now)

update_annotation(i, p) ==
    /\ \E t \in ClockInputs, fault \in StorageFaults :
         LET c == UpdateOutcomeAt(i, p, t)
             o == IF fault THEN CommitRaised(500) ELSE c IN
         /\ fault => c.status = 200
         /\ now' = t
         /\ annotations' = o.annotations
         /\ last' = Reply("update_annotation", o.id, o.status, ResponseBody(o))
         /\ storage_error' = fault
    /\ UNCHANGED <<documents, next_doc, next_ann, focus, order_index>>
    /\ UNCHANGED other_vars

DeleteOutcome_Silent(i) ==
    IF get_annotation_by_id(i) = None
    THEN Outcome(204, None, annotations, next_ann)
    ELSE Outcome(204, Some(i), Without(annotations, i), next_ann)

DeleteOutcome_WholeDocument(i) ==
    IF get_annotation_by_id(i) = None
    THEN Outcome(404, None, annotations, next_ann)
    ELSE Outcome(204, Some(i),
                 [j \in {k \in DOMAIN annotations :
                            annotations[k]["document_id"] # annotations[i]["document_id"]}
                     |-> annotations[j]],
                 next_ann)

DeleteOutcome(i) ==
    IF get_annotation_by_id(i) = None
    THEN Outcome(404, None, annotations, next_ann)
    ELSE Outcome(204, Some(i), Without(annotations, i), next_ann)

delete_annotation(i) ==
    /\ \E fault \in StorageFaults :
         LET c == DeleteOutcome(i)
             o == IF fault THEN CommitRaised(500) ELSE c IN
         /\ fault => c.status = 204
         /\ annotations' = o.annotations
         /\ last' = Response("delete_annotation", o.id, o.status)
         /\ storage_error' = fault
    /\ UNCHANGED <<documents, next_doc, next_ann, focus, now, order_index>>
    /\ UNCHANGED other_vars

GetOutcome(i) ==
    IF get_annotation_by_id(i) = None
    THEN [status |-> 404, body |-> None]
    ELSE [status |-> 200, body |-> Some(model_validate(i, get_annotation_by_id(i)[1]))]

get_annotation_Consume(i) ==
    /\ last' = Reply("get_annotation", Some(i), GetOutcome(i).status, GetOutcome(i).body)
    /\ annotations' = DeleteOutcome(i).annotations
    /\ UNCHANGED <<documents, next_doc, next_ann, focus, now, order_index>>
    /\ storage_error' = FALSE
    /\ UNCHANGED other_vars

get_annotation(i) ==
    /\ last' = Reply("get_annotation", Some(i), GetOutcome(i).status, GetOutcome(i).body)
    /\ UNCHANGED <<documents, annotations, next_doc, next_ann, focus, now, order_index>>
    /\ storage_error' = FALSE
    /\ UNCHANGED other_vars

(* `if annotation_type:` -- None and the empty string are both falsy. *)
Truthy(t) == t # None /\ t[1] # ""

(* The index the query planner scans for the document_id equality. *)
IndexFor(t, pg) ==
    IF pg # None THEN "idx_annotations_document_page"
    ELSE IF Truthy(t) THEN "idx_annotations_document_type"
    ELSE order_index

(* Position of a row in an index scan for one document_id: NULL sorts       *)
(* first, then the indexed column, then the rowid.                          *)
IndexRank(ix, row) ==
    IF ix = "idx_annotations_document_page"
    THEN (IF row["page"] = None THEN 0 ELSE row["page"][1])
    ELSE (IF row["annotation_type"] = "document" THEN 0 ELSE 1)

(* ORDER BY created_at over the scanned rows; rows with equal created_at    *)
(* stay in scan order.                                                      *)
Before(ix, i, j) ==
    \/ annotations[i]["created_at"] < annotations[j]["created_at"]
    \/ /\ annotations[i]["created_at"] = annotations[j]["created_at"]
       /\ \/ IndexRank(ix, annotations[i]) < IndexRank(ix, annotations[j])
          \/ /\ IndexRank(ix, annotations[i]) = IndexRank(ix, annotations[j])
             /\ i < j

OrderBy(ix, S) ==
    [k \in 1..Cardinality(S) |->
        CHOOSE i \in S : Cardinality({j \in S : Before(ix, j, i)}) = k - 1]

Matches_IgnorePage(row, d, t, pg) ==
    /\ row["document_id"] = Some(d)
    /\ Truthy(t) => row["annotation_type"] = t[1]

Matches(row, d, t, pg) ==
    /\ row["document_id"] = Some(d)
    /\ Truthy(t) => row["annotation_type"] = t[1]
    /\ pg # None => row["page"] = pg

get_annotations_by_document(d, t, pg) ==
    OrderBy(IndexFor(t, pg), {i \in DOMAIN annotations : Matches(annotations[i], d, t, pg)})

ListOutcome(d, t, pg) ==
    IF Truthy(t) /\ t[1] \notin AnnotationTypes
    THEN [status |-> 400, body |-> None]
    ELSE LET ids == get_annotations_by_document(d, t, pg) IN
         [status |-> 200,
          body |-> Some([annotations |-> [k \in 1..Len(ids) |->
                                             model_validate(ids[k], annotations[ids[k]])],
                         total |-> Len(ids), page |-> pg, document_id |-> d])]

(* The exchange keeps the query parameters next to the response. *)
get_annotations(d, t, pg) ==
    /\ last' = [op |-> "get_annotations", id |-> None, query |-> <<d, t, pg>>,
                status |-> ListOutcome(d, t, pg).status, body |-> ListOutcome(d, t, pg).body]
    /\ UNCHANGED <<documents, annotations, next_doc, next_ann, focus, now, order_index>>
    /\ storage_error' = FALSE
    /\ UNCHANGED other_vars

-----------------------------------------------------------------------------
(* Requests that overlap: each handler is split at its database round trips, *)
(* the SELECT that loads the row and the statement and commit that write.   *)

InitRace ==
    /\ documents = {}
    /\ annotations = [i \in {} |-> None]
    /\ next_doc = 1
    /\ next_ann = 1
    /\ last = Response("none", None, 0)
    /\ focus = "race"
    /\ now = 0
    /\ order_index = "idx_annotations_document_type"
    /\ storage_error = FALSE
    /\ InitOther

RacePayloads ==
    {EmptyPayload,
     With(EmptyPayload, "content", Some(Note)),
     With(EmptyPayload, "content", Some(Edited)),
     With(EmptyPayload, "color", Some(Tint))}

(* The number of commits made so far, plus one. *)
NextSeq == Cardinality({s \in Procs : sessions[s].seq > 0}) + 1

Done(s, status, seq) == [sessions[s] EXCEPT !.pc = "done", !.status = status, !.seq = seq]

(* update_annotation up to the end of its checks: the row is loaded into    *)
(* the session, the update data is taken from the body.                     *)
begin_update(s, i, p) ==
    /\ sessions[s].pc = "idle"
    /\ LET start == [Idle EXCEPT !.op = "update_annotation", !.id = i] IN
       sessions' = [sessions EXCEPT ![s] =
          IF ~AnnotationUpdateValid(p)
          THEN [start EXCEPT !.pc = "done", !.status = 422]
          ELSE IF get_annotation_by_id(i) = None
          THEN [start EXCEPT !.pc = "done", !.status = 404]
          ELSE IF OtherVariantField(annotations[i], UpdateModelDump(p))
          THEN [start EXCEPT !.pc = "done", !.status = 400]
          ELSE [start EXCEPT !.pc = "loaded", !.update_data = UpdateModelDump(p),
                             !.loaded = Some(annotations[i])]]
    /\ UNCHANGED <<documents, annotations, next_doc, next_ann, last, focus, now, order_index,
                   storage_error>>
    /\ UNCHANGED <<upload_vars, migration_vars>>

(* The attributes whose new value differs from the loaded one: the columns  *)
(* of the UPDATE statement the flush emits.                                 *)
ChangedColumns(s) ==
    LET loaded == Load(sessions[s].loaded[1]) IN
    {f \in DOMAIN sessions[s].update_data :
        ~is_equal(f, sessions[s].update_data[f], loaded[f])}

(* UPDATE annotations SET <changed columns>, updated_at = now WHERE id = i, *)
(* applied to the row as it is in the table now.                            *)
UpdateStatement(s, cur) ==
    [c \in Columns |->
        IF c \in ChangedColumns(s) THEN sessions[s].update_data[c]
        ELSE IF c = "updated_at" THEN now
        ELSE cur[c]]

(* A variant in which a statement that matches no row inserts the loaded    *)
(* row again.                                                               *)
UpdateCommit_Upsert(s) ==
    LET i == sessions[s].id
        cur == IF i \in DOMAIN annotations THEN annotations[i] ELSE sessions[s].loaded[1]
        row == UpdateStatement(s, cur)
    IN IF CommitOk(row)
       THEN [status |-> 200, annotations |-> With(annotations, i, row)]
       ELSE [status |-> 500, annotations |-> annotations]

(* The setattr loop, db.commit() and db.refresh(): with no changed column   *)
(* no statement is emitted and the refresh reads the row; a statement that  *)
(* matches no row raises StaleDataError, a refresh that finds no row raises *)
(* InvalidRequestError.                                                     *)
UpdateCommit(s) ==
    LET i == sessions[s].id IN
    IF i \notin DOMAIN annotations
    THEN [status |-> 500, annotations |-> annotations]
    ELSE IF ChangedColumns(s) = {}
    THEN [status |-> 200, annotations |-> annotations]
    ELSE LET row == UpdateStatement(s, annotations[i]) IN
         IF CommitOk(row)
         THEN [status |-> 200, annotations |-> [annotations EXCEPT ![i] = row]]
         ELSE [status |-> 500, annotations |-> annotations]

commit_update(s) ==
    /\ sessions[s].pc = "loaded" /\ sessions[s].op = "update_annotation"
    /\ annotations' = UpdateCommit(s).annotations
    /\ sessions' = [sessions EXCEPT ![s] = Done(s, UpdateCommit(s).status, NextSeq)]
    /\ UNCHANGED <<documents, next_doc, next_ann, last, focus, now, order_index, storage_error>>
    /\ UNCHANGED <<upload_vars, migration_vars>>

(* delete_annotation up to db.delete(). *)
begin_delete(s, i) ==
    /\ sessions[s].pc = "idle"
    /\ LET start == [Idle EXCEPT !.op = "delete_annotation", !.id = i] IN
       sessions' = [sessions EXCEPT ![s] =
          IF get_annotation_by_id(i) = None
          THEN [start EXCEPT !.pc = "done", !.status = 404]
          ELSE [start EXCEPT !.pc = "loaded", !.loaded = Some(annotations[i])]]
    /\ UNCHANGED <<documents, annotations, next_doc, next_ann, last, focus, now, order_index,
                   storage_error>>
    /\ UNCHANGED <<upload_vars, migration_vars>>

(* DELETE FROM annotations WHERE id = i and the commit.  When the row is    *)
(* already gone the statement matches nothing, which the ORM reports as a   *)
(* warning or raises as StaleDataError, depending on its version.           *)
commit_delete(s, stale_raises) ==
    /\ sessions[s].pc = "loaded" /\ sessions[s].op = "delete_annotation"
    /\ annotations' = Without(annotations, sessions[s].id)
    /\ sessions' = [sessions EXCEPT ![s] =
          [Done(s, IF sessions[s].id \notin DOMAIN annotations /\ stale_raises
                   THEN 500 ELSE 204, NextSeq)
             EXCEPT !.deleted = {sessions[s].id}]]
    /\ UNCHANGED <<documents, next_doc, next_ann, last, focus, now, order_index, storage_error>>
    /\ UNCHANGED <<upload_vars, migration_vars>>

(* delete_document up to db.delete(). *)
begin_delete_document(s, d) ==
    /\ sessions[s].pc = "idle"
    /\ LET start == [Idle EXCEPT !.op = "delete_document", !.id = d] IN
       sessions' = [sessions EXCEPT ![s] =
          IF d \notin documents
          THEN [start EXCEPT !.pc = "done", !.status = 404]
          ELSE [start EXCEPT !.pc = "loaded"]]
    /\ UNCHANGED <<documents, annotations, next_doc, next_ann, last, focus, now, order_index,
                   storage_error>>
    /\ UNCHANGED <<upload_vars, migration_vars>>

(* The cascade loads the document's annotations and deletes them with the   *)
(* document in one transaction.                                             *)
commit_delete_document(s, stale_raises) ==
    /\ sessions[s].pc = "loaded" /\ sessions[s].op = "delete_document"
    /\ annotations' = CascadeDelete(sessions[s].id)
    /\ documents' = documents \ {sessions[s].id}
    /\ sessions' = [sessions EXCEPT ![s] =
          [Done(s, IF sessions[s].id \notin documents /\ stale_raises THEN 500 ELSE 200,
                NextSeq)
             EXCEPT !.deleted = DOMAIN annotations \ DOMAIN CascadeDelete(sessions[s].id)]]
    /\ UNCHANGED <<next_doc, next_ann, last, focus, now, order_index, storage_error>>
    /\ UNCHANGED <<upload_vars, migration_vars>>

NextRace ==
    \/ create_document
    \/ \E p \in CreatePayloads : create_annotation(p)
    \/ \E s \in Procs, i \in AnnIds, p \in RacePayloads : begin_update(s, i, p)
    \/ \E s \in Procs : commit_update(s)
    \/ \E s \in Procs, i \in AnnIds : begin_delete(s, i)
    \/ \E s \in Procs, stale_raises \in BOOLEAN : commit_delete(s, stale_raises)
    \/ \E s \in Procs, d \in DocumentIdInputs : begin_delete_document(s, d)
    \/ \E s \in Procs, stale_raises \in BOOLEAN : commit_delete_document(s, stale_raises)

SpecRace == InitRace /\ [][NextRace]_vars

-----------------------------------------------------------------------------
(* Document upload and conversion.  File sizes are in MiB (0 is the empty   *)
(* file); request r writes the upload file r, the temporary directory r and *)
(* the converted file r (their names are fresh UUIDs), and creates the      *)
(* document r.                                                              *)

MaxFileSize == 10 * 1024
SchemaMaxFileSize == 100
MaxFilenameLength == 255
MinPdfSize == 1024
PdfSignature == "%PDF-"

Docx == "application/vnd.openxmlformats-officedocument.wordprocessingml.document"

allowed_file_types ==
    {"application/pdf", "application/msword", Docx, "image/png", "image/jpeg", "image/jpg"}

ConvertedTypes == {"application/msword", Docx}

BaseUpload == [content_type |-> Docx, file_size |-> 1, filename |-> Str(0, 8, 0)]

UploadInputs ==
    {[BaseUpload EXCEPT !.content_type = t]
        : t \in {Docx, "application/msword", "application/pdf", "text/plain"}}
    \cup {[BaseUpload EXCEPT !.file_size = n]
        : n \in {0, SchemaMaxFileSize, SchemaMaxFileSize + 1, MaxFileSize, MaxFileSize + 1}}
    \cup {[BaseUpload EXCEPT !.filename = n]
        : n \in {Str(3, 0, 0), Str(0, MaxFilenameLength, 0), Str(0, MaxFilenameLength + 1, 0)}}

(* DocumentCreate(...): the schema's validators. *)
DocumentCreateValid(u) ==
    /\ StrLen(u.filename) >= 1 /\ StrLen(u.filename) <= MaxFilenameLength
    /\ u.content_type \in allowed_file_types
    /\ u.file_size > 0
    /\ ~(u.file_size > SchemaMaxFileSize)

DocumentRow(r, u) ==
    [mime_type |-> u.content_type, file_size |-> u.file_size, original_filename |-> u.filename,
     file_path |-> r, converted_path |-> None]

UploadDone(u, status, code, body) ==
    [pc |-> "done", input |-> Some(u), status |-> status, code |-> code, body |-> body,
     conversion |-> None]

(* upload_document up to its first suspension inside the conversion: the    *)
(* checks, the write of the file, the document record.  `db_error` is       *)
(* db.commit() raising in create_document.                                  *)
upload_document(r, u, db_error) ==
    /\ uploads[r].pc = "idle"
    /\ IF u.content_type \notin allowed_file_types
       THEN /\ uploads' = [uploads EXCEPT ![r] = UploadDone(u, 400, "INVALID_FILE_TYPE", None)]
            /\ UNCHANGED <<document_rows, documents, upload_dir>>
       ELSE IF u.file_size > MaxFileSize
       THEN /\ uploads' = [uploads EXCEPT ![r] = UploadDone(u, 413, "FILE_TOO_LARGE", None)]
            /\ UNCHANGED <<document_rows, documents, upload_dir>>
       ELSE IF StrLen(Strip(u.filename)) = 0
       THEN /\ uploads' = [uploads EXCEPT ![r] = UploadDone(u, 400, "INVALID_FILENAME", None)]
            /\ UNCHANGED <<document_rows, documents, upload_dir>>
       ELSE IF ~DocumentCreateValid(u)
       THEN (* the file was written; the generic handler removes it *)
            /\ uploads' = [uploads EXCEPT ![r] = UploadDone(u, 500, "UPLOAD_FAILED", None)]
            /\ UNCHANGED <<document_rows, documents, upload_dir>>
       ELSE IF db_error
       THEN (* create_document raises HTTPException, which is re-raised as is *)
            /\ uploads' = [uploads EXCEPT ![r] = UploadDone(u, 500, "", None)]
            /\ upload_dir' = upload_dir \cup {r}
            /\ UNCHANGED <<document_rows, documents>>
       ELSE /\ upload_dir' = upload_dir \cup {r}
            /\ document_rows' = With(document_rows, r, DocumentRow(r, u))
            /\ documents' = documents \cup {r}
            /\ uploads' = [uploads EXCEPT ![r] =
                  IF u.content_type \in ConvertedTypes
                  THEN [UploadDone(u, 0, "", None) EXCEPT !.pc = "converting"]
                  ELSE UploadDone(u, 201, "", Some(DocumentRow(r, u)))]
    /\ UNCHANGED <<annotations, next_doc, next_ann, last, focus, now, order_index,
                   storage_error, sessions, conversion_dir, temp_dirs>>
    /\ UNCHANGED migration_vars

(* What the conversion tool leaves in the temporary directory. *)
ToolResults == {"not_found", "exit_nonzero", "timeout", "no_pdf", "pdf"}

GeneratedFiles ==
    {[size |-> MinPdfSize - 1, header |-> PdfSignature],
     [size |-> MinPdfSize, header |-> PdfSignature],
     [size |-> MinPdfSize, header |-> "<html"]}

(* convert_to_pdf: the temporary directory is made, the tool runs, the PDF  *)
(* found is moved to the conversion directory and then validated; the       *)
(* finally clause removes the temporary directory, unless rmtree raises.    *)
convert_to_pdf(r, tool, file, rmtree_error) ==
    LET moved == tool = "pdf"
        valid == moved /\ ~(file.size < MinPdfSize) /\ file.header = PdfSignature
    IN [path |-> IF valid THEN Some(r) ELSE None,
        conversion_dir |-> IF moved THEN With(conversion_dir, r, file) ELSE conversion_dir,
        temp_dirs |-> IF rmtree_error THEN temp_dirs \cup {r} ELSE temp_dirs \ {r}]

(* The rest of upload_document: the conversion returns or raises, the       *)
(* converted path is stored, the document is returned.  update_error is     *)
(* db.commit() raising in update_converted_path.                            *)
finish_upload(r, tool, file, rmtree_error, update_error) ==
    /\ uploads[r].pc = "converting"
    /\ LET c == convert_to_pdf(r, tool, file, rmtree_error)
           u == uploads[r].input[1]
           stored == c.path # None /\ r \in DOMAIN document_rows /\ ~update_error
           row == [document_rows[r] EXCEPT !.converted_path = c.path]
       IN /\ conversion_dir' = c.conversion_dir
          /\ temp_dirs' = c.temp_dirs
          /\ document_rows' = IF stored THEN [document_rows EXCEPT ![r] = row]
                               ELSE document_rows
          /\ uploads' = [uploads EXCEPT ![r] =
                IF c.path = None
                THEN (* the exception is printed and dropped *)
                     [UploadDone(u, 201, "", Some(DocumentRow(r, u)))
                        EXCEPT !.conversion = Some(c.path)]
                ELSE IF r \notin DOMAIN document_rows
                THEN (* update_converted_path returns None, which is returned *)
                     [UploadDone(u, 500, "", None) EXCEPT !.conversion = Some(c.path)]
                ELSE IF update_error
                THEN [UploadDone(u, 201, "", Some(document_rows[r]))
                        EXCEPT !.conversion = Some(c.path)]
                ELSE [UploadDone(u, 201, "", Some(row)) EXCEPT !.conversion = Some(c.path)]]
    /\ UNCHANGED <<documents, annotations, next_doc, next_ann, last, focus, now, order_index,
                   storage_error, sessions, upload_dir>>
    /\ UNCHANGED migration_vars

(* DELETE /documents/{id} of an uploaded document: its files are removed,   *)
(* then the row and, by the cascade, its annotations.                       *)
delete_uploaded_document(d) ==
    /\ d \in DOMAIN document_rows
    /\ upload_dir' = upload_dir \ {document_rows[d].file_path}
    /\ conversion_dir' =
         IF document_rows[d].converted_path # None
         THEN Without(conversion_dir, document_rows[d].converted_path[1])
         ELSE conversion_dir
    /\ document_rows' = Without(document_rows, d)
    /\ documents' = documents \ {d}
    /\ annotations' = CascadeDelete(d)
    /\ UNCHANGED <<next_doc, next_ann, last, focus, now, order_index, storage_error, sessions,
                   temp_dirs, uploads>>
    /\ UNCHANGED migration_vars

InitUpload ==
    /\ documents = {}
    /\ annotations = [i \in {} |-> None]
    /\ next_doc = 1
    /\ next_ann = 1
    /\ last = Response("none", None, 0)
    /\ focus = "upload"
    /\ now = 0
    /\ order_index = "idx_annotations_document_type"
    /\ storage_error = FALSE
    /\ InitOther

NextUpload ==
    \/ \E r \in Requests, u \in UploadInputs, db_error \in BOOLEAN :
         upload_document(r, u, db_error)
    \/ \E r \in Requests, tool \in ToolResults, file \in GeneratedFiles,
          rmtree_error \in BOOLEAN, update_error \in BOOLEAN :
         finish_upload(r, tool, file, rmtree_error, update_error)
    \/ \E d \in Requests : delete_uploaded_document(d)

SpecUpload == InitUpload /\ [][NextUpload]_vars

-----------------------------------------------------------------------------
(* migrate_annotations_table on a database created before annotation_type   *)
(* existed.  The sqlite3 module opens a transaction before the INSERT, not  *)
(* before CREATE TABLE, so the new table is created in autocommit mode and  *)
(* the rollback of a failed run does not remove it.                         *)

OldColumns == {"document_id", "page", "x_percent", "y_percent", "content",
               "created_at", "updated_at"}

OldRowSamples ==
    {[document_id |-> Some(1), page |-> Some(pg), x_percent |-> Some(x),
      y_percent |-> Some(75250), content |-> Some(c), created_at |-> 0, updated_at |-> 0]
        : pg \in {MinPage, MinPage + 1}, x \in {50500, 33333}, c \in {Note, Edited}}

OldTables ==
    UNION {[ids -> OldRowSamples] : ids \in {1..n : n \in 0..MaxOldRows}}

InitMigrate ==
    /\ documents = {}
    /\ annotations = [i \in {} |-> None]
    /\ next_doc = 1
    /\ next_ann = 1
    /\ last = Response("none", None, 0)
    /\ focus = "migrate"
    /\ now = 0
    /\ order_index = "idx_annotations_document_type"
    /\ storage_error = FALSE
    /\ InitRequests
    /\ original_rows \in OldTables
    /\ database = [schema |-> "old", rows |-> original_rows, annotations_new |-> FALSE,
                   indexes |-> {}]
    /\ migration = "none"

(* INSERT INTO annotations_new (...) SELECT ..., 'document', ... FROM        *)
(* annotations: the columns not listed are null.                            *)
CopiedRow(old) ==
    [c \in Columns |->
        IF c \in OldColumns THEN old[c]
        ELSE IF c = "annotation_type" THEN "document"
        ELSE None]

(* The statements of a run, in order; a run may fail at any of them (the    *)
(* database locked by the running service, the disk full).                  *)
MigrationSteps == <<"create_table", "insert", "drop_table", "rename", "create_index", "commit">>

FailurePoints == {MigrationSteps[k] : k \in 1..Len(MigrationSteps)} \cup {"none"}

Migrate(db, fault_at) ==
    IF db.schema = "new"
    THEN [result |-> "skipped", database |-> db]
    ELSE IF fault_at = "create_table" \/ db.annotations_new
    THEN [result |-> "failed", database |-> db]
    ELSE LET copied == [i \in DOMAIN db.rows |-> CopiedRow(db.rows[i])] IN
         IF \/ fault_at # "none"
            \/ \E i \in DOMAIN copied :
                 \/ ~check_annotation_type_fields(copied[i])
                 \/ ~NotNullColumns(copied[i])
         THEN (* conn.rollback(): the table created before the transaction stays *)
              [result |-> "failed", database |-> [db EXCEPT !.annotations_new = TRUE]]
         ELSE [result |-> "migrated",
               database |-> [schema |-> "new", rows |-> copied, annotations_new |-> FALSE,
                             indexes |-> Indexes]]

migrate_annotations_table(fault_at) ==
    /\ database' = Migrate(database, fault_at).database
    /\ migration' = Migrate(database, fault_at).result
    /\ UNCHANGED <<documents, annotations, next_doc, next_ann, last, focus, now, order_index,
                   storage_error, sessions, upload_vars, original_rows>>

NextMigrate ==
    \E fault_at \in FailurePoints : migrate_annotations_table(fault_at)

SpecMigrate == InitMigrate /\ [][NextMigrate]_vars

-----------------------------------------------------------------------------
Next ==
    \/ create_document
    \/ \E d \in DocumentIdInputs, os_error \in BOOLEAN : delete_document(d, os_error)
    \/ \E p \in CreatePayloads : create_annotation(p)
    \/ \E i \in AnnIds, p \in UpdatePayloads : update_annotation(i, p)
    \/ \E i \in AnnIds : delete_annotation(i)
    \/ \E i \in AnnIds : get_annotation(i)
    \/ \E d \in DocumentIdInputs, t \in TypeFilters, pg \in PageFilters : get_annotations(d, t, pg)

Spec == Init /\ [][Next]_vars

SpecTime == InitTime /\ [][Next]_vars

SpecQuery == InitQuery /\ [][Next]_vars

SpecFault == InitFault /\ [][Next]_vars

TypeOK ==
    /\ documents \subseteq DocIds
    /\ DOMAIN annotations \subseteq AnnIds
    /\ \A i \in DOMAIN annotations :
         /\ DOMAIN annotations[i] = Columns
         /\ annotations[i]["created_at"] \in 0..now
         /\ annotations[i]["updated_at"] \in 0..now
    /\ now \in 0..MaxClock
    /\ order_index \in Indexes
    /\ storage_error \in BOOLEAN

-----------------------------------------------------------------------------
(* Properties *)

Stored == DOMAIN annotations

IsDocumentRow(row) == row["annotation_type"] = "document"

IsImageRow(row) == row["annotation_type"] = "image"

CreatedRow(o) == o.annotations[o.id[1]]

(* C1: every stored annotation row has exactly one variant shape: type      *)
(* 'document' with page, x_percent, y_percent non-null and x_pixel, y_pixel *)
(* null, or type 'image' with x_pixel, y_pixel non-null and page,           *)
(* x_percent, y_percent null, after any sequence of successful or failed    *)
(* create, update and delete calls.                                         *)
C1_ExactlyOneVariantShape ==
    \A i \in Stored :
        LET row == annotations[i] IN
        \/ /\ IsDocumentRow(row)
           /\ row["page"] # None /\ row["x_percent"] # None /\ row["y_percent"] # None
           /\ row["x_pixel"] = None /\ row["y_pixel"] = None
        \/ /\ IsImageRow(row)
           /\ row["x_pixel"] # None /\ row["y_pixel"] # None
           /\ row["page"] = None /\ row["x_percent"] = None /\ row["y_percent"] = None

(* A document row and an image row are stored and the last call was an      *)
(* update setting page to null that the table's CHECK constraint refused.   *)
C1_Witness ==
    /\ focus = "page"
    /\ last.op = "update_annotation" /\ last.status = 500
    /\ \E i \in Stored :
         /\ IsDocumentRow(annotations[i])
         /\ UpdateOutcome(i, With(EmptyPayload, "page", None)).status = 500
    /\ {annotations[i]["annotation_type"] : i \in Stored} = AnnotationTypes

(* C2: an update of a stored document row whose update set contains x_pixel *)
(* or y_pixel, or of a stored image row whose update set contains page,     *)
(* x_percent or y_percent, is answered 400 and the store is unchanged, also *)
(* when the update carries other valid fields such as content.              *)
C2_OtherVariantUpdateRejected ==
    \A i \in Stored : \A p \in UpdatePayloads :
        LET keys == DOMAIN p
            other == IF IsDocumentRow(annotations[i])
                     THEN keys \cap {"x_pixel", "y_pixel"} # {}
                     ELSE keys \cap {"page", "x_percent", "y_percent"} # {}
        IN (AnnotationUpdateValid(p) /\ other) =>
              /\ UpdateOutcome(i, p).status = 400
              /\ UpdateOutcome(i, p).annotations = annotations

(* The last update was answered 400 with a document row stored, for which a *)
(* valid update carrying y_pixel together with content is among the inputs. *)
C2_Witness ==
    /\ last.op = "update_annotation" /\ last.status = 400
    /\ \E i \in Stored : \E p \in UpdatePayloads :
         /\ IsDocumentRow(annotations[i])
         /\ DOMAIN p = {"y_pixel", "content"}
         /\ AnnotationUpdateValid(p)
         /\ UpdateOutcome(i, p).status = 400

(* C3: every stored document-type annotation has color = null.              *)
C3_DocumentColorNull ==
    \A i \in Stored : IsDocumentRow(annotations[i]) => annotations[i]["color"] = None

(* C4: a successful create stores null in every field of the other variant, *)
(* whatever extra fields the payload carried: a document create stores      *)
(* x_pixel = y_pixel = color = null, an image create stores                 *)
(* page = x_percent = y_percent = null.                                     *)
C4_CreateNullsOtherVariant ==
    /\ \A p \in CreatePayloads : \A o \in CreateOutcomes(p) :
         o.status = 201 =>
            LET row == CreatedRow(o) IN
            /\ IsDocumentRow(row) =>
                 row["x_pixel"] = None /\ row["y_pixel"] = None /\ row["color"] = None
            /\ IsImageRow(row) =>
                 row["page"] = None /\ row["x_percent"] = None /\ row["y_percent"] = None
    /\ (last.op = "create_annotation" /\ last.status = 201) =>
         LET row == annotations[last.id[1]] IN
         /\ IsDocumentRow(row) =>
              row["x_pixel"] = None /\ row["y_pixel"] = None /\ row["color"] = None
         /\ IsImageRow(row) =>
              row["page"] = None /\ row["x_percent"] = None /\ row["y_percent"] = None

(* The last call created a document row, and a payload that carries the     *)
(* image fields and a color as extras yields exactly that row.              *)
C4_Witness ==
    /\ last.op = "create_annotation" /\ last.status = 201
    /\ last.id[1] \in Stored
    /\ IsDocumentRow(annotations[last.id[1]])
    /\ annotations[last.id[1]]["color"] = None
    /\ \E p \in CreatePayloads :
         /\ {"annotation_type", "x_pixel", "y_pixel", "color"} \subseteq DOMAIN p
         /\ p["color"] # None /\ p["x_pixel"] # None
         /\ AnnotationCreateVariants(p) = {"document"}
         /\ InsertRow(CreateModelDump("document", p), now) = annotations[last.id[1]]

(* C5 as claimed: a create payload that omits annotation_type, or gives a   *)
(* value other than 'document' or 'image', is rejected and no row is        *)
(* persisted.                                                               *)
C5_TypeRequiredOnCreate ==
    \A p \in CreatePayloads :
        (~Has(p, "annotation_type") \/ p["annotation_type"] \notin {"document", "image"}) =>
            \A o \in CreateOutcomes(p) : o.status = 422 /\ o.annotations = annotations

(* C5 as amended: annotation_type is a closed set: a create payload that    *)
(* gives a value other than 'document' or 'image' is rejected at the schema *)
(* boundary and nothing is persisted; a payload that omits it is validated  *)
(* against each variant with that variant's own type as the default; every  *)
(* created row has the type given, and every stored row one of the two.     *)
C5_ClosedTypeSet ==
    /\ \A i \in Stored : annotations[i]["annotation_type"] \in {"document", "image"}
    /\ \A p \in CreatePayloads : \A o \in CreateOutcomes(p) :
         /\ (Has(p, "annotation_type") /\ p["annotation_type"] \notin {"document", "image"}) =>
               o.status = 422 /\ o.annotations = annotations
         /\ o.status = 201 =>
               /\ CreatedRow(o)["annotation_type"] \in {"document", "image"}
               /\ Has(p, "annotation_type") =>
                    CreatedRow(o)["annotation_type"] = p["annotation_type"]

(* The last call created a row that a payload without annotation_type       *)
(* yields, while payloads with the type 'video' are among the inputs.       *)
C5_Witness ==
    /\ last.op = "create_annotation" /\ last.status = 201
    /\ last.id[1] \in Stored
    /\ \E p \in CreatePayloads :
         /\ ~Has(p, "annotation_type")
         /\ \E t \in AnnotationCreateVariants(p) :
              InsertRow(CreateModelDump(t, p), now) = annotations[last.id[1]]
    /\ \E q \in CreatePayloads :
         /\ Has(q, "annotation_type") /\ q["annotation_type"] = "video"
         /\ \A o \in CreateOutcomes(q) : o.status = 422

(* C6: every stored annotation's document_id is the id of a document that   *)
(* currently exists.                                                        *)
C6_DocumentExists ==
    \A i \in Stored :
        /\ annotations[i]["document_id"] # None
        /\ annotations[i]["document_id"][1] \in documents

(* C7: after delete_document(D) succeeds, no stored annotation has          *)
(* document_id = D, D is no longer a document, and the annotations of every *)
(* other document are unchanged.                                            *)
C7_CascadeDelete ==
    [][(last'.op = "delete_document" /\ last'.status = 200) =>
         LET D == last'.id IN
         /\ D[1] \notin documents'
         /\ \A i \in DOMAIN annotations' : annotations'[i]["document_id"] # D
         /\ DOMAIN annotations' \subseteq DOMAIN annotations
         /\ \A i \in DOMAIN annotations :
              annotations[i]["document_id"] # D =>
                 i \in DOMAIN annotations' /\ annotations'[i] = annotations[i]]_vars

(* A document was just deleted, an annotation of another document is still  *)
(* stored, and fewer annotations are stored than were created.              *)
C7_Witness ==
    /\ last.op = "delete_document" /\ last.status = 200
    /\ \E i \in Stored : annotations[i]["document_id"] # last.id
    /\ Cardinality(Stored) < next_ann - 1
    /\ documents # {}

(* C8 as claimed: content is accepted exactly when its length after         *)
(* trimming is in [1, 5000]: every otherwise valid create whose trimmed     *)
(* content has such a length succeeds.                                      *)
C8_TrimmedLengthDecides ==
    \A p \in CreatePayloads :
        (/\ Has(p, "content") /\ p["content"] # None
         /\ AnnotationCreateVariants(With(p, "content", Some(Note))) # {}
         /\ p["content"][1].core >= 1 /\ p["content"][1].core <= 5000) =>
            \A o \in CreateOutcomes(p) : o.status = 201

ContentAccepted(s) ==
    /\ s.lead + s.core + s.trail >= 1
    /\ s.lead + s.core + s.trail <= 5000
    /\ s.core >= 1

Trimmed(s) == [lead |-> 0, core |-> s.core, trail |-> 0]

(* C8 as amended: on create, and on update when content is present and not  *)
(* null, content is accepted exactly when its length as submitted is in     *)
(* [1, 5000] and it is not whitespace-only (the length limit applies before *)
(* trimming); the stored value is the trimmed string; rejected content is a *)
(* validation error and nothing is stored or changed.                       *)
C8_ContentValidation ==
    /\ \A p \in CreatePayloads :
         (/\ Has(p, "content") /\ p["content"] # None
          /\ AnnotationCreateVariants(With(p, "content", Some(Note))) # {}) =>
             \A o \in CreateOutcomes(p) :
                IF ContentAccepted(p["content"][1])
                THEN o.status = 201 /\ CreatedRow(o)["content"] = Some(Trimmed(p["content"][1]))
                ELSE o.status = 422 /\ o.annotations = annotations
    /\ \A i \in Stored : \A p \in UpdatePayloads :
         (Has(p, "content") /\ p["content"] # None) =>
             LET o == UpdateOutcome(i, p) IN
             IF ContentAccepted(p["content"][1])
             THEN /\ DOMAIN p = {"content"} => o.status = 200
                  /\ o.status = 200 =>
                       o.annotations[i]["content"] = Some(Trimmed(p["content"][1]))
             ELSE o.status = 422 /\ o.annotations = annotations

(* Contents are varied, a stored row holds the 5000-character content, and  *)
(* the last update was refused as invalid.                                  *)
C8_Witness ==
    /\ focus = "content"
    /\ last.op = "update_annotation" /\ last.status = 422
    /\ \E i \in Stored : annotations[i]["content"] = Some(Str(0, 5000, 0))
    /\ \E i \in Stored : annotations[i]["content"] = Some(Str(0, 4, 0))

InRange(o, lo, hi) == o # None /\ o[1] >= lo /\ o[1] <= hi

(* C9: no stored annotation holds an out-of-range coordinate: a document    *)
(* row has page >= 1 and x_percent, y_percent in [0, 100], an image row has *)
(* x_pixel, y_pixel >= 0; creates and updates with 0.0 and 100.0 are        *)
(* accepted and with -0.01 and 100.01 rejected.                             *)
C9_CoordinateBounds ==
    /\ \A i \in Stored :
         LET row == annotations[i] IN
         /\ IsDocumentRow(row) =>
              /\ row["page"] # None /\ row["page"][1] >= 1
              /\ InRange(row["x_percent"], 0, 100000)
              /\ InRange(row["y_percent"], 0, 100000)
         /\ IsImageRow(row) =>
              /\ row["x_pixel"] # None /\ row["x_pixel"][1] >= 0
              /\ row["y_pixel"] # None /\ row["y_pixel"][1] >= 0
    /\ \A f \in {"x_percent", "y_percent"} :
         /\ \A v \in {0, 100000} :
              /\ \A o \in CreateOutcomes(With(DocBase, f, Some(v))) : o.status = 201
              /\ \A i \in Stored : IsDocumentRow(annotations[i]) =>
                    UpdateOutcome(i, With(EmptyPayload, f, Some(v))).status = 200
         /\ \A v \in {0 - 10, 100010} :
              /\ \A o \in CreateOutcomes(With(DocBase, f, Some(v))) :
                    o.status = 422 /\ o.annotations = annotations
              /\ \A i \in Stored :
                    /\ UpdateOutcome(i, With(EmptyPayload, f, Some(v))).status = 422
                    /\ UpdateOutcome(i, With(EmptyPayload, f, Some(v))).annotations = annotations

(* x_percent is varied, rows with x_percent = 0.0 and = 100.0 are stored    *)
(* and the last call was refused as invalid.                                *)
C9_Witness ==
    /\ focus = "x_percent"
    /\ last.status = 422
    /\ \E i \in Stored : annotations[i]["x_percent"] = Some(100000)
    /\ \E i \in Stored : annotations[i]["x_percent"] = Some(0)

IsHexColor(s) ==
    /\ Len(s) = 7
    /\ s[1] = "#"
    /\ \A k \in 2..7 : s[k] \in {"0", "9", "A", "F", "a", "f"}

(* C10: every non-null color in the store is '#' followed by exactly six    *)
(* hexadecimal digits.                                                      *)
C10_StoredColorsAreHex ==
    \A i \in Stored :
        annotations[i]["color"] # None => IsHexColor(annotations[i]["color"][1])
-----------------------------------------------------------------------------
(* Properties of update, delete and the reads *)

IsUpdateStep == last'.op = "update_annotation"

(* C11: update_annotation never changes an annotation's id, document_id,    *)
(* annotation_type or created_at, whatever the update payload contains,     *)
(* payload keys with those names included: every update step keeps the set  *)
(* of stored ids and these three columns of every row.                      *)
C11_UpdateKeepsIdentity ==
    [][IsUpdateStep =>
         /\ DOMAIN annotations' = DOMAIN annotations
         /\ \A i \in DOMAIN annotations :
              /\ annotations'[i]["document_id"] = annotations[i]["document_id"]
              /\ annotations'[i]["annotation_type"] = annotations[i]["annotation_type"]
              /\ annotations'[i]["created_at"] = annotations[i]["created_at"]]_vars

(* The last call was a successful update whose payload carried id,          *)
(* document_id, annotation_type and created_at next to the edited content   *)
(* (no other payload brings that content here), on a document annotation    *)
(* whose id, document and creation time all differ from the payload's.      *)
C11_Witness ==
    /\ focus = "identity"
    /\ last.op = "update_annotation" /\ last.status = 200
    /\ LET i == last.id[1] IN
       /\ annotations[i]["content"] = Some(Edited)
       /\ Some(i) # ServerFields["id"]
       /\ annotations[i]["annotation_type"] # ServerFields["annotation_type"]
       /\ annotations[i]["document_id"] # ServerFields["document_id"]
       /\ annotations[i]["created_at"] # ServerFields["created_at"]

Validated(f, v) == IF f = "content" /\ v # None THEN Some(Strip(v[1])) ELSE v

(* C12: a successful update sets exactly the fields present in the update   *)
(* set to the given (validated) values, an explicit null included; every    *)
(* user field not present keeps its stored value, and no other row changes. *)
C12_UpdateSetsExactlyPresentFields ==
    \A i \in Stored : \A p \in UpdatePayloads :
        LET o == UpdateOutcome(i, p) IN
        o.status = 200 =>
            /\ DOMAIN o.annotations = Stored
            /\ \A f \in UpdateFields :
                 o.annotations[i][f] =
                    IF f \in DOMAIN p THEN Validated(f, p[f]) ELSE annotations[i][f]
            /\ \A j \in Stored \ {i} : o.annotations[j] = annotations[j]

(* The last call was a successful update that set the color of an image row *)
(* to null and left its pixel coordinates and content as created, while     *)
(* another row is stored.                                                   *)
C12_Witness ==
    /\ focus = "color"
    /\ last.op = "update_annotation" /\ last.status = 200
    /\ LET row == annotations[last.id[1]] IN
       /\ IsImageRow(row)
       /\ row["color"] = None
       /\ row["x_pixel"] = BaseValue("x_pixel")
       /\ row["content"] = BaseValue("content")
    /\ Cardinality(Stored) = 2

(* C13: every successful update_annotation call, whatever its field set,    *)
(* refreshes updated_at to the time of that update.                         *)
C13_UpdateRefreshesUpdatedAt ==
    [][(IsUpdateStep /\ last'.status = 200) =>
          annotations'[last'.id[1]]["updated_at"] = now']_vars

(* The part of C13 that the table guarantees: created_at <= updated_at <=   *)
(* the database time for every stored row.                                  *)
TimestampsOrdered ==
    \A i \in Stored :
        /\ annotations[i]["created_at"] <= annotations[i]["updated_at"]
        /\ annotations[i]["updated_at"] <= now

(* C14: update_annotation (with any valid body), delete_annotation and      *)
(* get-by-id called with an id that matches no stored annotation answer 404 *)
(* and leave every stored row unchanged.                                    *)
C14_UnknownIdIsNotFound ==
    \A i \in AnnIds \ Stored :
        /\ \A p \in UpdatePayloads :
             AnnotationUpdateValid(p) =>
                /\ UpdateOutcome(i, p).status = 404
                /\ UpdateOutcome(i, p).annotations = annotations
        /\ DeleteOutcome(i).status = 404
        /\ DeleteOutcome(i).annotations = annotations
        /\ GetOutcome(i).status = 404
        /\ GetOutcome(i).body = None

(* The last call was an update answered 404 while one annotation is stored  *)
(* and another, created earlier, has been deleted.                          *)
C14_Witness ==
    /\ last.op = "update_annotation" /\ last.status = 404
    /\ Stored # {}
    /\ \E i \in AnnIds \ Stored : i < next_ann

Listed(d, t, pg) ==
    LET o == ListOutcome(d, t, pg) IN
    IF o.status = 200
    THEN {o.body[1].annotations[k]["id"] : k \in 1..o.body[1].total}
    ELSE {}

Gone(i) ==
    /\ i \notin Stored
    /\ GetOutcome(i).status = 404
    /\ DeleteOutcome(i).status = 404
    /\ \A d \in DocumentIdInputs, t \in TypeFilters, pg \in PageFilters : i \notin Listed(d, t, pg)

(* C15: delete_annotation on an existing id removes exactly that row: the   *)
(* step takes that id out of the table and leaves all other annotations and *)
(* all documents unchanged; and in every state, the one right after the     *)
(* delete included, get-by-id and a delete of an id that was created and is *)
(* no longer stored answer 404 and no list query returns it, so an id once  *)
(* deleted stays gone.                                                      *)
C15_DeleteRemovesExactlyOne ==
    /\ [][(last'.op = "delete_annotation" /\ last'.status = 204) =>
            \E i \in AnnIds :
              /\ last'.id = Some(i)
              /\ i \in DOMAIN annotations
              /\ DOMAIN annotations' = DOMAIN annotations \ {i}
              /\ \A j \in DOMAIN annotations' : annotations'[j] = annotations[j]
              /\ documents' = documents]_vars
    /\ [](\A i \in AnnIds : (i < next_ann /\ i \notin Stored) => Gone(i))

(* An annotation was just deleted while another annotation of the same      *)
(* document, created before it, is still stored and listed.                 *)
C15_Witness ==
    /\ focus = "query"
    /\ last.op = "delete_annotation" /\ last.status = 204
    /\ last.id = Some(2)
    /\ Stored = {1}
    /\ \E d \in DocumentIdInputs : Listed(d, None, None) = {1}

ValidTypeFilters == {t \in TypeFilters : t = None \/ t[1] \in AnnotationTypes}

Selected(d, t, pg) ==
    {i \in Stored :
        /\ annotations[i]["document_id"] = Some(d)
        /\ t # None => annotations[i]["annotation_type"] = t[1]
        /\ pg # None => annotations[i]["page"] = pg}

(* C16: a list query for document D with no type filter or a type filter of *)
(* 'document' or 'image', and with or without a page filter, is answered    *)
(* 200 with exactly the stored annotations of D that have the type and the  *)
(* page asked for, each once and as stored; total is their number, and      *)
(* document_id and page echo the request.  An image-type query with a page  *)
(* filter is answered 200 with the empty list.                              *)
C16_ListReturnsExactlyMatching ==
    \A d \in DocumentIdInputs, t \in ValidTypeFilters, pg \in PageFilters :
        LET o == ListOutcome(d, t, pg) IN
        /\ o.status = 200
        /\ Listed(d, t, pg) = Selected(d, t, pg)
        /\ o.body[1].total = Cardinality(Selected(d, t, pg))
        /\ Len(o.body[1].annotations) = o.body[1].total
        /\ \A k \in 1..o.body[1].total :
             LET a == o.body[1].annotations[k] IN a = model_validate(a["id"], annotations[a["id"]])
        /\ o.body[1].document_id = d
        /\ o.body[1].page = pg
        /\ (t = Some("image") /\ pg # None) => o.body[1].total = 0

(* The last call was a list query with a page filter that returned one of   *)
(* the two stored annotations of the document, the other being a document   *)
(* annotation on another page; a third query selects neither.               *)
C16_Witness ==
    /\ focus = "query"
    /\ last.op = "get_annotations" /\ last.status = 200
    /\ last.body[1].page = Some(MinPage + 1)
    /\ last.body[1].total = 1
    /\ Cardinality(Selected(last.body[1].document_id, Some("document"), None)) = 2
    /\ Selected(last.body[1].document_id, Some("image"), Some(MinPage)) = {}

(* C17: a list query whose annotation_type filter is supplied with any      *)
(* value other than 'document' or 'image', the empty string included, is    *)
(* answered 400 and returns no annotations.                                 *)
C17_InvalidTypeFilterRejected ==
    \A d \in DocumentIdInputs, t \in TypeFilters, pg \in PageFilters :
        (t # None /\ t[1] \notin AnnotationTypes) =>
            /\ ListOutcome(d, t, pg).status = 400
            /\ ListOutcome(d, t, pg).body = None

(* C18: list results are in creation order: annotations created one after   *)
(* another for a document are listed in that same order, also when their    *)
(* created_at values are equal.                                             *)
C18_ListInCreationOrder ==
    \A d \in DocumentIdInputs, t \in ValidTypeFilters, pg \in PageFilters :
        LET ids == get_annotations_by_document(d, t, pg) IN
        \A a, b \in 1..Len(ids) : a < b => ids[a] < ids[b]

(* The part of C18 that ORDER BY created_at guarantees: created_at never    *)
(* decreases along a list result.                                           *)
ListSortedByCreatedAt ==
    \A d \in DocumentIdInputs, t \in ValidTypeFilters, pg \in PageFilters :
        LET ids == get_annotations_by_document(d, t, pg) IN
        \A a, b \in 1..Len(ids) :
            a < b => annotations[ids[a]]["created_at"] <= annotations[ids[b]]["created_at"]

IsReadStep == last'.op \in {"get_annotation", "get_annotations"}

Submitted(p, f) == IF Has(p, f) THEN Validated(f, p[f]) ELSE None

(* C20: for every accepted create payload, fetching the created annotation  *)
(* by id immediately afterwards returns the submitted annotation_type,      *)
(* document_id, content (trimmed) and the variant's coordinates and color   *)
(* unchanged, for every accepted x_percent / y_percent value.               *)
C20_CreateThenGetRoundTrip ==
    \A p \in CreatePayloads : \A o \in CreateOutcomes(p) :
        o.status = 201 =>
            LET i == o.id[1]
                got == model_validate(i, o.annotations[i])
            IN /\ Has(p, "annotation_type") => got["annotation_type"] = p["annotation_type"]
               /\ got["document_id"] = p["document_id"]
               /\ got["content"] = Submitted(p, "content")
               /\ IsDocumentRow(got) =>
                    \A f \in DocumentFields : got[f] = p[f]
               /\ IsImageRow(got) =>
                    \A f \in ImageFields \cup {"color"} : got[f] = Submitted(p, f)

(* C21: an update_annotation that fails for any reason (422, 404, 400 or    *)
(* 500, the 500 of a payload that sets a required field to null included)   *)
(* applies none of its fields: every update step that is not answered 200   *)
(* leaves the whole annotations table exactly as it was.                    *)
C21_FailedUpdateChangesNothing ==
    [][(IsUpdateStep /\ last'.status # 200) => annotations' = annotations]_vars

(* The last call was an update of a stored annotation that the storage      *)
(* layer refused: with only the content varied, the payload set content to  *)
(* null, and the row still has its content.                                 *)
C21_Witness ==
    /\ focus = "content"
    /\ last.op = "update_annotation" /\ last.status = 500
    /\ \E i \in Stored : annotations[i]["content"] # None
    /\ \E i \in Stored : UpdateOutcome(i, With(EmptyPayload, "content", None)).status = 500

(* C22: a storage-layer error raised while committing create_annotation,    *)
(* update_annotation or delete_annotation leaves the store as it was and is *)
(* answered with a 5xx status, never with a client error.                   *)
C22_StorageErrorIsInternalError ==
    [][storage_error' =>
         /\ annotations' = annotations
         /\ documents' = documents
         /\ last'.status >= 500]_vars

(* The part of C22 that holds: the store is rolled back after every failed  *)
(* commit, and update and delete answer 500.                                *)
StorageErrorRollsBack ==
    [][storage_error' =>
         /\ annotations' = annotations
         /\ documents' = documents
         /\ last'.op # "create_annotation" => last'.status = 500]_vars

Committed(s, op) == sessions[s].op = op /\ sessions[s].seq > 0

(* C23: when two update_annotation calls overlap on the same annotation,    *)
(* both are answered 200, and every field written by both holds the value   *)
(* written by the one that committed last.                                  *)
C23_LastWriteWins ==
    \A a \in Procs, b \in Procs :
        (/\ Committed(a, "update_annotation") /\ Committed(b, "update_annotation")
         /\ sessions[a].id = sessions[b].id
         /\ sessions[a].seq < sessions[b].seq)
        => /\ sessions[a].status = 200 /\ sessions[b].status = 200
           /\ \A f \in DOMAIN sessions[a].update_data \cap DOMAIN sessions[b].update_data :
                annotations[sessions[b].id][f] = sessions[b].update_data[f]

(* The part of C23 that holds: two overlapping updates of one annotation    *)
(* both succeed, and a field written by one of them only keeps that value.  *)
RacingUpdatesBothSucceed ==
    \A a \in Procs, b \in Procs :
        (/\ Committed(a, "update_annotation") /\ Committed(b, "update_annotation")
         /\ sessions[a].id = sessions[b].id
         /\ a # b)
        => /\ sessions[a].status = 200 /\ sessions[b].status = 200
           /\ \A f \in DOMAIN sessions[a].update_data \ DOMAIN sessions[b].update_data :
                annotations[sessions[a].id][f] = sessions[a].update_data[f]

(* C28: a deleted annotation is never resurrected: an annotation removed by *)
(* a committed delete_annotation or by the cascade of a committed           *)
(* delete_document is absent from the table in every later state, and no    *)
(* update_annotation whose commit comes after that delete is answered 200.  *)
C28_DeletedNeverResurrected ==
    /\ [](\A s \in Procs : sessions[s].deleted \cap DOMAIN annotations = {})
    /\ [][\A u \in Procs :
            (/\ sessions[u].pc = "loaded" /\ sessions[u].op = "update_annotation"
             /\ sessions'[u].pc = "done" /\ sessions'[u].status = 200)
            => \A s \in Procs : sessions[u].id \notin sessions[s].deleted]_vars

(* An update loaded the annotation, a delete of the same annotation then    *)
(* committed first (204), and the update's commit came second and failed.   *)
C28_Witness ==
    \E u \in Procs, d \in Procs :
        /\ Committed(d, "delete_annotation") /\ sessions[d].status = 204
        /\ sessions[d].seq = 1
        /\ Committed(u, "update_annotation") /\ sessions[u].seq = 2
        /\ sessions[u].id = sessions[d].id
        /\ sessions[u].loaded # None
        /\ ChangedColumns(u) # {}
        /\ sessions[u].status = 500

ConversionStarts(r) == uploads[r].pc = "idle" /\ uploads'[r].pc = "converting"

ConversionEnds(r) == uploads[r].pc = "converting" /\ uploads'[r].pc = "done"

ConversionFailed(r) == uploads[r].conversion = Some(None)

(* C24: for every DOC/DOCX upload that passes validation the document row   *)
(* is committed when the conversion starts, and the upload is answered 201  *)
(* with that document however the conversion ends; a failed conversion      *)
(* leaves the stored document with converted_path null.                     *)
C24_UploadSurvivesConversion ==
    [][\A r \in Requests :
         /\ ConversionStarts(r) =>
               /\ r \in DOMAIN document_rows'
               /\ document_rows'[r].converted_path = None
         /\ ConversionEnds(r) =>
               /\ uploads'[r].status = 201
               /\ uploads'[r].body # None
               /\ ConversionFailed(r)' => document_rows' = document_rows]_vars

(* The part of C24 that holds: a conversion that fails never fails the      *)
(* upload and never touches the document rows, and an upload whose document *)
(* is still stored when the conversion ends is answered 201.                *)
ConversionFailureIsSwallowed ==
    [][\A r \in Requests :
         ConversionEnds(r) =>
           /\ ConversionFailed(r)' => uploads'[r].status = 201 /\ document_rows' = document_rows
           /\ r \in DOMAIN document_rows => uploads'[r].status = 201]_vars

(* C25: when the conversion tool ran without error and a generated PDF      *)
(* whose content starts with %PDF- was found, the stored document's         *)
(* converted_path is the converted file and the response carries it.        *)
C25_ConvertedPathIsStored ==
    [][\A r \in Requests :
         (/\ ConversionEnds(r)
          /\ r \in DOMAIN conversion_dir'
          /\ conversion_dir'[r].header = PdfSignature)
         => /\ uploads'[r].status = 201
            /\ uploads'[r].body[1].converted_path = Some(r)
            /\ r \in DOMAIN document_rows'
            /\ document_rows'[r].converted_path = Some(r)]_vars

(* C26: an upload of more than 100 MiB is answered 413 with code            *)
(* FILE_TOO_LARGE and creates no document row.                              *)
C26_TooLargeIs413 ==
    \A r \in Requests :
        (uploads[r].pc # "idle" /\ uploads[r].input[1].file_size > SchemaMaxFileSize)
        => /\ uploads[r].status = 413
           /\ uploads[r].code = "FILE_TOO_LARGE"
           /\ r \notin DOMAIN document_rows

(* The part of C26 that holds: such an upload is refused and creates no     *)
(* document row, and it is answered 413 when it exceeds settings'           *)
(* max_file_size.                                                           *)
TooLargeCreatesNoDocument ==
    \A r \in Requests :
        (uploads[r].pc # "idle" /\ uploads[r].input[1].file_size > SchemaMaxFileSize)
        => /\ uploads[r].status \in {413, 500}
           /\ uploads[r].input[1].file_size > MaxFileSize => uploads[r].status = 413
           /\ r \notin DOMAIN document_rows

(* C27: when upload_document ends in an error, no file written by the       *)
(* request remains in the upload directory and no document row created by   *)
(* it remains in the table.                                                 *)
C27_FailedUploadLeavesNothing ==
    \A r \in Requests :
        (uploads[r].pc = "done" /\ uploads[r].status >= 400)
        => r \notin upload_dir /\ r \notin DOMAIN document_rows

(* The part of C27 that holds: no document row remains, and no file remains *)
(* after a rejection by the handler's checks or by the schema.              *)
RejectedUploadLeavesNothing ==
    \A r \in Requests :
        (uploads[r].pc = "done" /\ uploads[r].status >= 400)
        => /\ r \notin DOMAIN document_rows
           /\ uploads[r].code # "" => r \notin upload_dir

(* C29: when convert_to_pdf fails, its temporary directory is gone and no   *)
(* output file of it is in the conversion directory; when it returns a      *)
(* path, the file there has at least 1024 bytes and starts with %PDF-.      *)
C29_FailedConversionLeavesNothing ==
    [][\A r \in Requests :
         ConversionEnds(r) =>
           IF ConversionFailed(r)'
           THEN r \notin temp_dirs' /\ r \notin DOMAIN conversion_dir'
           ELSE /\ r \in DOMAIN conversion_dir'
                /\ conversion_dir'[r].size >= MinPdfSize
                /\ conversion_dir'[r].header = PdfSignature]_vars

(* The part of C29 that holds: a path is returned only for a valid file,    *)
(* and a conversion in which no PDF was found leaves no output file.        *)
ReturnedPathIsValidPdf ==
    [][\A r \in Requests :
         ConversionEnds(r) =>
           IF ConversionFailed(r)'
           THEN r \in DOMAIN conversion_dir' =>
                  \/ conversion_dir'[r].size < MinPdfSize
                  \/ conversion_dir'[r].header # PdfSignature
           ELSE /\ r \in DOMAIN conversion_dir'
                /\ conversion_dir'[r].size >= MinPdfSize
                /\ conversion_dir'[r].header = PdfSignature]_vars

(* The parts of C30 that the script keeps: a run that succeeds copies every *)
(* row with its id and its old columns, typed 'document' and with null      *)
(* pixel coordinates and colour; a run on a migrated database changes       *)
(* nothing; a run that fails leaves the old table and its rows as they were. *)
MigrationPreservesRows ==
    /\ [](database.schema = "new" =>
            database.rows = [i \in DOMAIN original_rows |-> CopiedRow(original_rows[i])])
    /\ [](database.schema = "old" => database.rows = original_rows)
    /\ [][database.schema = "new" => database' = database /\ migration' = "skipped"]_vars

(* C30: migrate_annotations_table is idempotent and data-preserving: a run  *)
(* that succeeds keeps every row, a run on a migrated database changes      *)
(* nothing, and a run that fails leaves the original table and its rows     *)
(* intact and can be retried, that is, a later run that meets no failure    *)
(* migrates the table.                                                      *)
C30_MigrationIdempotentAndRetryable ==
    /\ MigrationPreservesRows
    /\ [](migration = "failed" => Migrate(database, "none").result = "migrated")
====
